---- MODULE Spec2Model ----
(***************************************************************************)
(* The report server of backend/server/server.py as a state machine: the   *)
(* POST /report/ route (generate_report), the job body it runs inline or   *)
(* as a background task (write_report), the polling route (read_report)    *)
(* and the websocket route (websocket_endpoint).                           *)
(***************************************************************************)
EXTENDS Integers, Sequences, FiniteSets, TLC

\* ---------------------------------------------------------------- bounds
MaxJobs == 2          \* submissions to POST /report/ in one run
MaxClock == 2         \* the wall clock runs over 0..MaxClock ticks
TicksPerSecond == 2   \* clock ticks in one second of time.time()
MaxConns == 1         \* websocket connections in one run

\* ------------------------------------------------------- program constants
DefaultDepth == 2     \* deep_research_config.get("max_iterations", 2)
DefaultBreadth == 4   \* deep_research_config.get("max_search_results_per_query", 4)

\* ------------------------------------------------------------ value sets
Unset == "<unset>"
NoPath == <<>>
None == <<>>
Some(v) == <<v>>

\* Task texts, as sequences of characters; "/" is a path separator.
Tasks == { <<"f">>, <<"f", "/">> }
Tones == { "Objective", "Bogus" }
\* gpt_researcher.utils.enum.Tone, reduced to one member
ToneEnum == { "Objective" }
ReportTypes == { "research_report" }
KnowledgeBases == { None, Some("kb1") }
DeepConfigs == { None, Some([max_iterations |-> 3]) }
Reports == { "R1", "R2" }

ResearchRequest ==
    [ task : Tasks,
      report_type : ReportTypes,
      tone : Tones,
      knowledge_base : KnowledgeBases,
      deep_research_config : DeepConfigs,
      generate_in_background : BOOLEAN ]

VARIABLES
    now,                 \* time.time(), in ticks
    jobs,                \* one record per call of generate_report, in call order
    environ,             \* os.environ, the variables write_report touches
    outputs,             \* the files of outputs/: file name -> content
    active_connections,  \* manager's registry of websockets
    ws,                  \* position of each websocket_endpoint call
    disconnect_calls,    \* calls of manager.disconnect made for each websocket
    disk,                \* directories and files of the document and vector stores
    uploaded,            \* knowledge-base names upload_file has stored a file for
    last_op              \* what the last call of a file route worked on and answered

files == << disk, uploaded, last_op >>

vars == << now, jobs, environ, outputs, active_connections, ws, disconnect_calls,
           disk, uploaded, last_op >>

\* ------------------------------------------------------------ pure helpers
\* int(time.time())
IntTime(t) == t \div TicksPerSecond

\* str(n) for the small numbers the model uses
Str(n) == << "0", "1", "2", "3", "4", "5", "6", "7", "8", "9" >>[n + 1]

\* dict.get(key, default)
DictGet(d, k, default) == IF k \in DOMAIN d THEN d[k] ELSE default

\* os.path.join on paths kept as sequences of components
PathJoin(a, b) == a \o b

UnsafeChars == { "/" }

RECURSIVE StripUnsafe(_)
StripUnsafe(s) ==
    IF s = <<>> THEN <<>>
    ELSE IF Head(s) \in UnsafeChars THEN StripUnsafe(Tail(s))
         ELSE << Head(s) >> \o StripUnsafe(Tail(s))

\* sanitize_filename(f"task_{ts}_{task}"): the prefix and the digits of the
\* timestamp are safe characters, the task text loses its unsafe ones
sanitize_filename(ts, task) == [ prefix |-> "task", ts |-> ts, task |-> StripUnsafe(task) ]

\* research_id of a submission made at tick t
ResearchId(t, req) == sanitize_filename(IntTime(t), req.task)

\* truthiness of Optional[dict] and Optional[str]
HasDeepConfig(req) ==
    /\ req.deep_research_config # None
    /\ DOMAIN req.deep_research_config[1] # {}
HasKnowledgeBase(req) ==
    /\ req.knowledge_base # None
    /\ req.knowledge_base[1] # ""

\* os.environ.get("VECTOR_STORE_PATH", "vector_store")
VectorStoreBase == << "vector_store" >>

KbPath(req) == PathJoin(VectorStoreBase, << req.knowledge_base[1] >>)

\* lines 135-137 with an else branch that writes the default tuning
EnvAfterSetup_Defaults(env, req) ==
    LET e1 == IF HasDeepConfig(req)
              THEN [ env EXCEPT
                       !.DEEP_RESEARCH_DEPTH =
                           Str(DictGet(req.deep_research_config[1], "max_iterations", DefaultDepth)),
                       !.DEEP_RESEARCH_BREADTH =
                           Str(DictGet(req.deep_research_config[1],
                                       "max_search_results_per_query", DefaultBreadth)) ]
              ELSE [ env EXCEPT !.DEEP_RESEARCH_DEPTH = Str(DefaultDepth),
                                !.DEEP_RESEARCH_BREADTH = Str(DefaultBreadth) ]
    IN  IF HasKnowledgeBase(req)
        THEN [ e1 EXCEPT !.DOC_PATH = PathJoin(KbPath(req), << "docs" >>) ]
        ELSE e1

\* lines 135-147 of write_report: the environment after the job's set-up
EnvAfterSetup(env, req) ==
    LET e1 == IF HasDeepConfig(req)
              THEN [ env EXCEPT
                       !.DEEP_RESEARCH_DEPTH =
                           Str(DictGet(req.deep_research_config[1], "max_iterations", DefaultDepth)),
                       !.DEEP_RESEARCH_BREADTH =
                           Str(DictGet(req.deep_research_config[1],
                                       "max_search_results_per_query", DefaultBreadth)) ]
              ELSE env
    IN  IF HasKnowledgeBase(req)
        THEN [ e1 EXCEPT !.DOC_PATH = PathJoin(KbPath(req), << "docs" >>) ]
        ELSE e1

\* vector_store_path handed to run_agent (lines 139-143, 161)
VectorStorePath(req) == IF HasKnowledgeBase(req) THEN KbPath(req) ELSE NoPath

\* Tone[research_request.tone] raises KeyError on an unknown name (line 155)
ToneLookupRaises(req) == req.tone \notin ToneEnum

\* what the researcher is initialised with: its cfg comes from the
\* environment (comment at lines 132-134), the store path from the call
AgentConfig(env, req) ==
    [ depth |-> env.DEEP_RESEARCH_DEPTH,
      breadth |-> env.DEEP_RESEARCH_BREADTH,
      doc_path |-> env.DOC_PATH,
      vector_store_path |-> VectorStorePath(req) ]

NoConfig == [ depth |-> Unset, breadth |-> Unset, doc_path |-> NoPath, vector_store_path |-> NoPath ]

\* os.path.join('outputs', f"{research_id}.docx")
DocxFile(id) == [ id |-> id, ext |-> "docx" ]
PdfFile(id) == [ id |-> id, ext |-> "pdf" ]

\* writing a file into outputs/
WriteFile(fs, f, content) ==
    [ g \in DOMAIN fs \cup { f } |-> IF g = f THEN content ELSE fs[g] ]

\* lines 125-126 answering a missing report with an error status
read_report_NotFoundError(fs, id) ==
    IF DocxFile(id) \notin DOMAIN fs
    THEN [ kind |-> "error", body |-> "404" ]
    ELSE [ kind |-> "file", body |-> fs[DocxFile(id)] ]

\* read_report: GET /report/{research_id}
read_report(fs, id) ==
    IF DocxFile(id) \notin DOMAIN fs
    THEN [ kind |-> "message", body |-> "Report not found." ]
    ELSE [ kind |-> "file", body |-> fs[DocxFile(id)] ]

\* line 191 with its test inverted
RunsInBackground_Inverted(req) == ~req.generate_in_background

\* generate_report awaits write_report itself unless the request asks for
\* a background task (line 191)
RunsInBackground(req) == req.generate_in_background

\* lines 169-183 with the task text in place of research_id
Response_TaskAsId(req, id, report, docx_path, pdf_path) ==
    [ research_id |-> [ id EXCEPT !.ts = 0 ],
      report |-> IF req.report_type # "multi_agents" THEN report ELSE "",
      docx_path |-> docx_path,
      pdf_path |-> pdf_path ]

\* the dict write_report returns (lines 167-185)
Response(req, id, report, docx_path, pdf_path) ==
    [ research_id |-> id,
      report |-> IF req.report_type # "multi_agents" THEN report ELSE "",
      docx_path |-> docx_path,
      pdf_path |-> pdf_path ]

\* the renderers of backend/utils.py write outputs/<research_id>.<ext> and
\* give its path back, or fail with an I/O error and write nothing
RenderOutcomes == { "written", "raises" }
NoArtifact == <<>>

FilesAfterRender(fs, f, report, outcome) ==
    IF outcome = "written" THEN WriteFile(fs, f, report) ELSE fs

PathAfterRender(f, outcome) ==
    IF outcome = "written" THEN Some(f) ELSE NoArtifact

\* run_agent is called with websocket=None and stream_output=None
\* (lines 156-157): of the registered connections, the ones the job's
\* computation can send an event to
AgentWebsocket == None
EventReceivers(conns) == IF AgentWebsocket = None THEN {} ELSE conns

\* ------------------------------------------------------------------ state
\* os.environ when the process starts
StartupEnviron ==
    [ DEEP_RESEARCH_DEPTH |-> Unset,
      DEEP_RESEARCH_BREADTH |-> Unset,
      DOC_PATH |-> NoPath ]

\* the directories startup_event leaves behind (lines 104-111); the
\* document root is not made before list_files is called
StartupDisk == [ dirs |-> { VectorStoreBase }, files |-> {} ]

NoOp == [ op |-> "none", dir |-> NoPath, status |-> 0, names |-> {} ]

Init ==
    /\ now = 0
    /\ jobs = <<>>
    /\ environ = StartupEnviron
    /\ outputs = <<>>
    /\ active_connections = {}
    /\ ws = [ c \in 1..MaxConns |-> "new" ]
    /\ disconnect_calls = [ c \in 1..MaxConns |-> 0 ]
    /\ disk = StartupDisk
    /\ uploaded = {}
    /\ last_op = NoOp

Job(j) == jobs[j]
JobIds == DOMAIN jobs

\* time passes
Tick ==
    /\ now < MaxClock
    /\ now' = now + 1
    /\ UNCHANGED << jobs, environ, outputs, active_connections, ws, disconnect_calls, files >>

\* write_report from its first line to its first await (lines 135-163):
\* the environment is set, then the arguments of run_agent are evaluated
\* and the researcher starts, or Tone[...] raises.  Gives the job's fields.
EnterWriteReport(job) ==
    IF ToneLookupRaises(job.req)
    THEN [ job EXCEPT !.pc = "raised", !.error = "KeyError" ]
    ELSE [ job EXCEPT !.pc = "run_agent",
                      !.cfg = AgentConfig(EnvAfterSetup(environ, job.req), job.req) ]

\* how the failure of an awaited write_report reaches the caller of
\* generate_report (line 196): the exception leaves the route
Surface(job) ==
    IF ~RunsInBackground(job.req) /\ job.pc = "raised"
    THEN [ job EXCEPT !.resp = "error" ]
    ELSE job

\* POST /report/ (lines 187-197)
generate_report(req) ==
    /\ Len(jobs) < MaxJobs
    /\ LET id == ResearchId(now, req)
           fresh == [ req |-> req, research_id |-> id,
                      pc |-> "queued", resp |-> "none", error |-> "none",
                      cfg |-> NoConfig, report |-> "", docx_path |-> NoArtifact,
                      pdf_path |-> NoArtifact, response |-> None ]
       IN  IF RunsInBackground(req)
           THEN /\ jobs' = Append(jobs, [ fresh EXCEPT !.resp = "ack" ])
                /\ UNCHANGED environ
           ELSE /\ jobs' = Append(jobs, Surface(EnterWriteReport(fresh)))
                /\ environ' = EnvAfterSetup(environ, req)
    /\ UNCHANGED << now, outputs, active_connections, ws, disconnect_calls, files >>

\* the background task starts (the task added at line 192 runs write_report)
StartBackground(j) ==
    /\ Job(j).pc = "queued"
    /\ jobs' = [ jobs EXCEPT ![j] = EnterWriteReport(Job(j)) ]
    /\ environ' = EnvAfterSetup(environ, Job(j).req)
    /\ UNCHANGED << now, outputs, active_connections, ws, disconnect_calls, files >>

\* run_agent returns the report (line 149)
RunAgentReturns(j, r) ==
    /\ Job(j).pc = "run_agent"
    /\ jobs' = [ jobs EXCEPT ![j] = [ @ EXCEPT !.pc = "write_md_to_word", !.report = r ] ]
    /\ UNCHANGED << now, environ, outputs, active_connections, ws, disconnect_calls, files >>

\* run_agent raises
RunAgentRaises(j) ==
    /\ Job(j).pc = "run_agent"
    /\ jobs' = [ jobs EXCEPT ![j] =
                   Surface([ @ EXCEPT !.pc = "raised", !.error = "ExecutionError" ]) ]
    /\ UNCHANGED << now, environ, outputs, active_connections, ws, disconnect_calls, files >>

\* line 165 naming the docx after the task text, without the timestamp
WriteMdToWord_TaskName(j, outcome) ==
    /\ Job(j).pc = "write_md_to_word"
    /\ outputs' = FilesAfterRender(outputs, DocxFile(sanitize_filename(0, Job(j).req.task)),
                                   Job(j).report, outcome)
    /\ jobs' = [ jobs EXCEPT ![j] =
                   IF outcome = "raises"
                   THEN Surface([ @ EXCEPT !.pc = "raised", !.error = "ResourceError" ])
                   ELSE [ @ EXCEPT !.pc = "write_md_to_pdf",
                                   !.docx_path = PathAfterRender(DocxFile(Job(j).research_id), outcome) ] ]
    /\ UNCHANGED << now, environ, active_connections, ws, disconnect_calls, files >>

\* write_md_to_word finishes (line 165)
WriteMdToWord(j, outcome) ==
    /\ Job(j).pc = "write_md_to_word"
    /\ outputs' = FilesAfterRender(outputs, DocxFile(Job(j).research_id), Job(j).report, outcome)
    /\ jobs' = [ jobs EXCEPT ![j] =
                   IF outcome = "raises"
                   THEN Surface([ @ EXCEPT !.pc = "raised", !.error = "ResourceError" ])
                   ELSE [ @ EXCEPT !.pc = "write_md_to_pdf",
                                   !.docx_path = PathAfterRender(DocxFile(Job(j).research_id), outcome) ] ]
    /\ UNCHANGED << now, environ, active_connections, ws, disconnect_calls, files >>

\* lines 196-197 answering with the acknowledgement of line 193
Deliver_Acknowledges(job) == [ job EXCEPT !.pc = "done", !.resp = "ack" ]

\* the value a finished write_report hands to its caller: generate_report
\* returns it (line 197), a background task has no caller and it is dropped
Deliver(job) ==
    LET response == Response(job.req, job.research_id, job.report, job.docx_path, job.pdf_path)
    IN  IF RunsInBackground(job.req)
        THEN [ job EXCEPT !.pc = "done" ]
        ELSE [ job EXCEPT !.pc = "done", !.resp = "result", !.response = Some(response) ]

\* write_md_to_pdf finishes, and write_report builds its response and
\* returns (lines 166-185)
WriteMdToPdf(j, outcome) ==
    /\ Job(j).pc = "write_md_to_pdf"
    /\ outputs' = FilesAfterRender(outputs, PdfFile(Job(j).research_id), Job(j).report, outcome)
    /\ jobs' = [ jobs EXCEPT ![j] =
                   IF outcome = "raises"
                   THEN Surface([ @ EXCEPT !.pc = "raised", !.error = "ResourceError" ])
                   ELSE Deliver([ @ EXCEPT !.pdf_path = PathAfterRender(PdfFile(Job(j).research_id), outcome) ]) ]
    /\ UNCHANGED << now, environ, active_connections, ws, disconnect_calls, files >>

\* ------------------------------------------------------ websocket route
\* manager.connect / manager.disconnect on the registry
Connect(conns, c) == conns \cup { c }
Disconnect(conns, c) == conns \ { c }

\* how handle_websocket_communication can end (lines 257-260)
HandlerEnds == { "WebSocketDisconnect", "Exception", "return" }

\* the registry after the handler of c has ended: only the
\* WebSocketDisconnect clause calls manager.disconnect
AfterHandler(conns, c, end) ==
    IF end = "WebSocketDisconnect" THEN Disconnect(conns, c) ELSE conns

\* lines 259-260 with a finally clause added that disconnects as well
DisconnectCalls_ExceptAndFinally(end) == IF end = "WebSocketDisconnect" THEN 2 ELSE 1

\* the calls of manager.disconnect websocket_endpoint makes when its
\* handler ends (lines 259-260)
DisconnectCalls(end) == IF end = "WebSocketDisconnect" THEN 1 ELSE 0

\* await manager.connect(websocket) (line 256)
WsConnect(c) ==
    /\ ws[c] = "new"
    /\ active_connections' = Connect(active_connections, c)
    /\ ws' = [ ws EXCEPT ![c] = "handling" ]
    /\ UNCHANGED << now, jobs, environ, outputs, disconnect_calls, files >>

\* handle_websocket_communication ends and websocket_endpoint with it
WsHandlerEnds(c, end) ==
    /\ ws[c] = "handling"
    /\ active_connections' = AfterHandler(active_connections, c, end)
    /\ ws' = [ ws EXCEPT ![c] = end ]
    /\ disconnect_calls' = [ disconnect_calls EXCEPT ![c] = @ + DisconnectCalls(end) ]
    /\ UNCHANGED << now, jobs, environ, outputs, files >>

\* ---------------------------------------------------------- file routes
\* the knowledge_base form field of POST /upload/, as name segments and
\* path separators; <<>> is the empty string
Separator == "/"
UploadNames == { <<>>, << "kb1" >>, << "k", "/", "d" >> }
FileNames == { "a.txt" }
UploadOutcomes == { "stored", "raises" }

\* the components os.path.join(base, name) adds to base
Segments(name) == SelectSeq(name, LAMBDA x : x # Separator)

\* DOC_PATH = os.getenv("DOC_PATH", "./my-docs"), evaluated at import (line 99)
DOC_PATH == IF StartupEnviron.DOC_PATH = NoPath THEN << "my-docs" >> ELSE StartupEnviron.DOC_PATH

\* line 99 evaluated at each call instead of once at import
DocumentRoot_FromEnviron(env) == IF env.DOC_PATH = NoPath THEN << "my-docs" >> ELSE env.DOC_PATH

\* the directory list_files and delete_file work on (lines 202-204, 229):
\* the module constant, whatever the environment holds by then
DocumentRoot(env) == DOC_PATH

\* os.makedirs(path, exist_ok=True)
makedirs(d, path) ==
    [ d EXCEPT !.dirs = @ \cup { SubSeq(path, 1, n) : n \in 1..Len(path) } ]

\* os.listdir(dir)
listdir(d, dir) ==
    { p[Len(p)] : p \in { q \in d.dirs \cup d.files :
                            /\ Len(q) = Len(dir) + 1
                            /\ SubSeq(q, 1, Len(dir)) = dir } }

\* GET /knowledge-bases (lines 244-251)
get_knowledge_bases(d) ==
    IF VectorStoreBase \notin d.dirs
    THEN {}
    ELSE { e \in listdir(d, VectorStoreBase) : PathJoin(VectorStoreBase, << e >>) \in d.dirs }

\* handle_file_upload(file, doc_path) stores the file under doc_path, or
\* fails with an I/O error and stores nothing
StoreFile(d, dir, filename, outcome) ==
    IF outcome = "stored"
    THEN [ d EXCEPT !.files = @ \cup { PathJoin(dir, << filename >>) } ]
    ELSE d

\* handle_file_deletion(filename, dir) removes dir/filename
RemoveFile(d, dir, filename) ==
    [ d EXCEPT !.files = @ \ { PathJoin(dir, << filename >>) } ]

\* the docs folder of a knowledge base (lines 219-221)
UploadDocPath(name) ==
    PathJoin(PathJoin(VectorStoreBase, Segments(name)), << "docs" >>)

\* POST /upload/ (lines 214-224)
upload_file(name, filename, outcome) ==
    /\ IF name = <<>>
       THEN /\ last_op' = [ op |-> "upload", dir |-> NoPath, status |-> 400, names |-> {} ]
            /\ UNCHANGED << disk, uploaded >>
       ELSE /\ disk' = StoreFile(makedirs(disk, UploadDocPath(name)),
                                 UploadDocPath(name), filename, outcome)
            /\ uploaded' = IF outcome = "stored" THEN uploaded \cup { name } ELSE uploaded
            /\ last_op' = [ op |-> "upload", dir |-> UploadDocPath(name),
                            status |-> IF outcome = "stored" THEN 200 ELSE 500,
                            names |-> {} ]
    /\ UNCHANGED << now, jobs, environ, outputs, active_connections, ws, disconnect_calls >>

\* GET /files/ (lines 200-206)
list_files ==
    /\ LET dir == DocumentRoot(environ)
           d1 == IF dir \notin disk.dirs THEN makedirs(disk, dir) ELSE disk
       IN  /\ disk' = d1
           /\ last_op' = [ op |-> "list", dir |-> dir, status |-> 200,
                           names |-> listdir(d1, dir) ]
    /\ UNCHANGED << now, jobs, environ, outputs, active_connections, ws,
                    disconnect_calls, uploaded >>

\* DELETE /files/{filename} (lines 227-229)
delete_file(filename) ==
    /\ LET dir == DocumentRoot(environ)
           found == PathJoin(dir, << filename >>) \in disk.files
       IN  /\ disk' = IF found THEN RemoveFile(disk, dir, filename) ELSE disk
           /\ last_op' = [ op |-> "delete", dir |-> dir,
                           status |-> IF found THEN 200 ELSE 404,
                           names |-> {} ]
    /\ UNCHANGED << now, jobs, environ, outputs, active_connections, ws,
                    disconnect_calls, uploaded >>

Next ==
    \/ Tick
    \/ \E req \in ResearchRequest : generate_report(req)
    \/ \E j \in JobIds : StartBackground(j)
    \/ \E j \in JobIds, r \in Reports : RunAgentReturns(j, r)
    \/ \E j \in JobIds : RunAgentRaises(j)
    \/ \E j \in JobIds, o \in RenderOutcomes : WriteMdToWord(j, o)
    \/ \E j \in JobIds, o \in RenderOutcomes : WriteMdToPdf(j, o)
    \/ \E c \in 1..MaxConns : WsConnect(c)
    \/ \E c \in 1..MaxConns, end \in HandlerEnds : WsHandlerEnds(c, end)

Spec == Init /\ [][Next]_vars

\* The file routes, next to the jobs that change os.environ["DOC_PATH"].
\* The document root may be missing, empty or hold a file when the process
\* starts; the submissions are the ones that differ in what write_report
\* does to the environment's document path.
InitFiles ==
    /\ now = 0
    /\ jobs = <<>>
    /\ environ = StartupEnviron
    /\ outputs = <<>>
    /\ active_connections = {}
    /\ ws = [ c \in 1..MaxConns |-> "new" ]
    /\ disconnect_calls = [ c \in 1..MaxConns |-> 0 ]
    /\ disk \in { StartupDisk,
                  makedirs(StartupDisk, DOC_PATH),
                  StoreFile(makedirs(StartupDisk, DOC_PATH), DOC_PATH, "a.txt", "stored") }
    /\ uploaded = {}
    /\ last_op = NoOp

DocPathRequests ==
    { req \in ResearchRequest : /\ req.task = << "f" >>
                                /\ req.tone \in ToneEnum
                                /\ req.deep_research_config = None }

NextFiles ==
    \/ \E req \in DocPathRequests : generate_report(req)
    \/ \E j \in JobIds : StartBackground(j)
    \/ \E name \in UploadNames, f \in FileNames, o \in UploadOutcomes : upload_file(name, f, o)
    \/ list_files
    \/ \E f \in FileNames : delete_file(f)

SpecFiles == InitFiles /\ [][NextFiles]_vars

\* ================================================================ claims
\* every research_id generate_report can produce within the clock's range
ResearchIds == { ResearchId(t, req) : t \in 0..MaxClock, req \in ResearchRequest }

Active(j) == Job(j).pc \in { "run_agent", "write_md_to_word", "write_md_to_pdf" }
Ended(j) == Job(j).pc \in { "done", "raised" }

\* C1: no two submissions ever receive the same research_id.
C1_UniqueResearchIds ==
    \A i, j \in JobIds : i # j => Job(i).research_id # Job(j).research_id

\* C2: a failure of run_agent or of a later step of an acknowledged
\* background job is observable: polling with the research_id returns the
\* error, or a terminal event reaches the open connections.
C2_FailureObservable ==
    \A j \in JobIds :
        ( /\ Job(j).resp = "ack"
          /\ Job(j).pc = "raised"
          /\ Job(j).error \in { "ExecutionError", "ResourceError" } )
        => \/ read_report(outputs, Job(j).research_id).body = Job(j).error
           \/ EventReceivers(active_connections) # {}

\* C3: a submission with a tone outside the Tone enumeration is never
\* acknowledged and no write_report is scheduled or started for it.
C3_InvalidToneCreatesNoJob ==
    \A j \in JobIds :
        Job(j).req.tone \notin ToneEnum
        => /\ Job(j).resp # "ack"
           /\ Job(j).pc \notin { "queued", "run_agent", "write_md_to_word",
                                 "write_md_to_pdf", "done", "raised" }

\* C4: no two executions of write_report that carry the same research_id
\* are active at the same time.
C4_OneActivePerResearchId ==
    \A i, j \in JobIds :
        (i # j /\ Active(i) /\ Active(j)) => Job(i).research_id # Job(j).research_id

\* C5: polling read_report is monotonic for every research_id: it answers
\* "not found" until an execution carrying that id has written its docx,
\* and once it has answered with the file it never answers "not found" again.
C5_PollMonotonic ==
    /\ [](\A id \in ResearchIds :
            read_report(outputs, id).kind = "file"
            => \E j \in JobIds : /\ Job(j).research_id = id
                                 /\ Job(j).docx_path # NoArtifact)
    /\ [][\A id \in ResearchIds :
            read_report(outputs, id).kind = "file"
            => read_report(outputs', id).kind = "file"]_vars

\* C5 witness: a poll answers with the file while a later execution with
\* the same research_id is still computing.
C5_Witness ==
    \E i, j \in JobIds :
        /\ i # j
        /\ Job(i).research_id = Job(j).research_id
        /\ Job(j).pc = "run_agent"
        /\ read_report(outputs, Job(i).research_id).kind = "file"

\* C6: a background submission has its acknowledgement at every stage of
\* its execution: the response is given before run_agent starts and does
\* not wait for it to finish.
C6_AckBeforeCompletion ==
    \A j \in JobIds :
        Job(j).req.generate_in_background
        => /\ Job(j).resp = "ack"
           /\ Job(j).response = None

\* C6 witness: an acknowledged background job whose computation is running.
C6_Witness ==
    \E j \in JobIds :
        /\ Job(j).req.generate_in_background
        /\ Job(j).resp = "ack"
        /\ Job(j).pc = "run_agent"

\* C7: once the execution of a background job whose computation returned
\* report R has ended, polling with its research_id returns the file with R.
C7_PollReturnsResult ==
    \A j \in JobIds :
        ( /\ Job(j).req.generate_in_background
          /\ Ended(j)
          /\ Job(j).report # "" )
        => read_report(outputs, Job(j).research_id) = [ kind |-> "file", body |-> Job(j).report ]

\* C8: no connection stays registered once its handler has ended.
C8_NoConnectionLeak ==
    \A c \in 1..MaxConns : ws[c] \in HandlerEnds => c \notin active_connections

\* the configuration a job's own params give on the startup environment
OwnConfig(req) == AgentConfig(EnvAfterSetup(StartupEnviron, req), req)

\* C9: the document path and the depth/breadth a job's computation runs
\* with are determined by the job's own params only.
C9_ConfigFromOwnParams ==
    \A j \in JobIds :
        Job(j).pc \in { "run_agent", "write_md_to_word", "write_md_to_pdf", "done" }
        => Job(j).cfg = OwnConfig(Job(j).req)

\* C10: when rendering fails after the computation succeeded, the report
\* text is still retrievable, with empty artifact paths and the error noted.
C10_ReportSurvivesRenderFailure ==
    \A j \in JobIds :
        Job(j).error = "ResourceError"
        => \/ /\ Job(j).response # None
              /\ Job(j).response[1].report = Job(j).report
           \/ read_report(outputs, Job(j).research_id).body = Job(j).report

\* C11: a foreground submission is answered only once its write_report has
\* finished: with the result, carrying the research_id generated for it, or
\* with the failure; never with an acknowledgement, and with nothing while
\* the execution is still active.
C11_ForegroundWaits ==
    \A j \in JobIds :
        ~Job(j).req.generate_in_background
        => /\ Job(j).resp # "ack"
           /\ Job(j).pc # "queued"
           /\ Active(j) => (Job(j).resp = "none" /\ Job(j).response = None)
           /\ Job(j).pc = "raised" => Job(j).resp = "error"
           /\ Job(j).pc = "done"
              => /\ Job(j).resp = "result"
                 /\ Job(j).response # None
                 /\ Job(j).response[1].research_id = Job(j).research_id
                 /\ Job(j).response[1].report = Job(j).report

\* C11 witness: a foreground submission answered with its full result.
C11_Witness ==
    \E j \in JobIds :
        /\ ~Job(j).req.generate_in_background
        /\ Job(j).pc = "done"
        /\ Job(j).resp = "result"

\* C12: read_report answers with the artifact when outputs/<id>.docx is
\* present and with "Report not found." otherwise; for an id no submission
\* has received it answers "not found", and it never answers with an error.
C12_ReadReportAnswers ==
    \A id \in ResearchIds :
        LET answer == read_report(outputs, id)
        IN  /\ answer.kind \in { "file", "message" }
            /\ DocxFile(id) \in DOMAIN outputs
               => answer = [ kind |-> "file", body |-> outputs[DocxFile(id)] ]
            /\ DocxFile(id) \notin DOMAIN outputs
               => answer = [ kind |-> "message", body |-> "Report not found." ]
            /\ (\A j \in JobIds : Job(j).research_id # id) => answer.kind = "message"

\* C12 witness: one job is still running and polled "not found" while the
\* artifact of another is served.
C12_Witness ==
    \E i, j \in JobIds :
        /\ Job(i).pc = "run_agent"
        /\ read_report(outputs, Job(i).research_id).kind = "message"
        /\ read_report(outputs, Job(j).research_id).kind = "file"

\* C13: every knowledge-base name that received an upload appears exactly
\* once in the list get_knowledge_bases returns.
C13_UploadedListedOnce ==
    \A name \in uploaded :
        Cardinality({ e \in get_knowledge_bases(disk) : << e >> = name }) = 1

\* within one execution the artifacts follow the computation, docx first
StepOrder ==
    \A j \in JobIds :
        /\ Job(j).docx_path # NoArtifact
           => (Job(j).report # "" /\ Job(j).pc \in { "write_md_to_pdf", "done", "raised" })
        /\ Job(j).pdf_path # NoArtifact => (Job(j).docx_path # NoArtifact /\ Job(j).pc = "done")
        /\ Job(j).response # None => Job(j).pdf_path # NoArtifact

\* C14: the docx of a research_id does not exist while an execution with
\* that research_id is still computing, nor after its run_agent has raised.
C14_NoDocxWhileComputing ==
    \A j \in JobIds :
        (Job(j).pc = "run_agent" \/ Job(j).error = "ExecutionError")
        => DocxFile(Job(j).research_id) \notin DOMAIN outputs

Entering(j) ==
    /\ j \in DOMAIN jobs'
    /\ (j \notin DOMAIN jobs \/ jobs[j].pc = "queued")
    /\ jobs'[j].pc # "queued"

\* C16: a step changes the depth/breadth variables only when a job with a
\* deep_research_config enters write_report, and DOC_PATH only when a job
\* with a knowledge_base does; a variable once set is never unset, and a
\* job that sets nothing runs with the values left by the jobs before it.
C16_EnvironFrame ==
    [][ /\ ( \/ environ'.DEEP_RESEARCH_DEPTH # environ.DEEP_RESEARCH_DEPTH
             \/ environ'.DEEP_RESEARCH_BREADTH # environ.DEEP_RESEARCH_BREADTH )
           => \E j \in DOMAIN jobs' :
                  Entering(j) /\ jobs'[j].req.deep_research_config # None
        /\ environ'.DOC_PATH # environ.DOC_PATH
           => \E j \in DOMAIN jobs' :
                  Entering(j) /\ jobs'[j].req.knowledge_base # None
        /\ environ.DEEP_RESEARCH_DEPTH # Unset => environ'.DEEP_RESEARCH_DEPTH # Unset
        /\ environ.DEEP_RESEARCH_BREADTH # Unset => environ'.DEEP_RESEARCH_BREADTH # Unset
        /\ environ.DOC_PATH # NoPath => environ'.DOC_PATH # NoPath
        /\ \A j \in DOMAIN jobs' :
               (Entering(j) /\ jobs'[j].pc = "run_agent")
               => /\ jobs'[j].req.deep_research_config = None
                     => /\ jobs'[j].cfg.depth = environ.DEEP_RESEARCH_DEPTH
                        /\ jobs'[j].cfg.breadth = environ.DEEP_RESEARCH_BREADTH
                  /\ jobs'[j].req.knowledge_base = None
                     => jobs'[j].cfg.doc_path = environ.DOC_PATH
      ]_vars

\* C16 witness: a job without deep_research_config and without
\* knowledge_base runs with the depth and the document path earlier jobs set.
C16_Witness ==
    \E j \in JobIds :
        /\ Job(j).pc = "run_agent"
        /\ Job(j).req.deep_research_config = None
        /\ Job(j).req.knowledge_base = None
        /\ Job(j).cfg.depth = "3"
        /\ Job(j).cfg.doc_path # NoPath

\* C17: list_files and delete_file work on the document root of the
\* module's import, whatever write_report has put in os.environ["DOC_PATH"]
\* and whatever has been uploaded; the uploaded files stay where they are.
C17_ImportTimeDocumentRoot ==
    /\ last_op.op \in { "list", "delete" } => last_op.dir = DOC_PATH
    /\ \A name \in uploaded :
           \E f \in FileNames : PathJoin(UploadDocPath(name), << f >>) \in disk.files

\* C17 witness: delete_file has removed a file of the import-time root
\* while the environment points at the docs of an uploaded knowledge base.
C17_Witness ==
    /\ last_op.op = "delete"
    /\ last_op.status = 200
    /\ environ.DOC_PATH = UploadDocPath(<< "kb1" >>)
    /\ << "kb1" >> \in uploaded

\* C18: manager.disconnect is called at most once for a connection and
\* never before its connect has completed, and the handler of a
\* connection runs only with the connection registered.
C18_DisconnectOnceAfterConnect ==
    \A c \in 1..MaxConns :
        /\ disconnect_calls[c] <= 1
        /\ ws[c] = "new" => (disconnect_calls[c] = 0 /\ c \notin active_connections)
        /\ ws[c] = "handling" => (disconnect_calls[c] = 0 /\ c \in active_connections)
        /\ disconnect_calls[c] = 1 => ws[c] = "WebSocketDisconnect"

\* C18 witness: a connection was registered, its handler ended with
\* WebSocketDisconnect and disconnect was called once.
C18_Witness ==
    \E c \in 1..MaxConns :
        /\ ws[c] = "WebSocketDisconnect"
        /\ disconnect_calls[c] = 1
        /\ c \notin active_connections
====
